---- MODULE Spec2Model ----
(***************************************************************************)
(* YouTubeMusicAnalytics (src/youtube_music_analytics.py): the pipeline    *)
(* run_analysis drives over one CSV file: load/clean, exploratory          *)
(* analysis, statistical analysis, visualizations, insights report.        *)
(*                                                                         *)
(* A table (pandas DataFrame) is a record [columns, rows]: rows is the     *)
(* sequence of its rows in table order, each row a function from the       *)
(* column names to cells, plus "idx", the pandas index label (the row's    *)
(* position in the file).  A cell of the file is text; "" is an empty      *)
(* cell.  A numeric cell is a natural number, or NaN.                      *)
(***************************************************************************)
EXTENDS Integers, Sequences, FiniteSets, TLC

\* Largest number of data rows of a small CSV file.
MaxRows == 3

\* The rows of a file that is analyzed more than once, and the length of the
\* insight list from which no further run is started.
MaxRepeatRows == 1
MaxInsights == 6

\* The rows of the file of which one row has no view_count.
ScenarioRows == 5

\* The marker of a missing numeric value (no cell of the inputs is negative).
NaN == -1

\* The thresholds and sizes written in the code.
MegaHitMin == 1000000000
PopularMin == 100000000
FollowerChartMin == 100
TopSongsN == 20
TopChannelsN == 10
NumCharts == 9

AllColumns ==
    {"title", "channel", "view_count", "duration", "duration_string",
     "channel_follower_count"}

\* The text of the numbers that occur in the files, with the value
\* pd.to_numeric gives each.
NumericText ==
    ("5" :> 5) @@ ("180" :> 180) @@ ("240" :> 240) @@ ("5000" :> 5000)
    @@ ("7000" :> 7000) @@ ("99999999" :> 99999999)
    @@ ("100000000" :> 100000000) @@ ("999999999" :> 999999999)
    @@ ("1000000000" :> 1000000000)

\* pd.to_numeric(cell, errors='coerce'): the number a text denotes, NaN for an
\* empty cell and for a text that is no number.
ToNumeric(cell) ==
    IF cell \in DOMAIN NumericText THEN NumericText[cell] ELSE NaN

\* ---------------------------------------------------------------- inputs

FileRow(t, ch, vc, dur, fol) ==
    [title |-> t, channel |-> ch, view_count |-> vc, duration |-> dur,
     duration_string |-> "m:ss", channel_follower_count |-> fol]

\* The rows small files are made of: the bucket boundaries, ties of
\* view_count across channels, rows without follower data, and rows with one
\* required cell empty or unparseable.
FileRows ==
    { FileRow("a", "Beta", "1000000000", "180", "5000"),
      FileRow("b", "Alpha", "1000000000", "240", ""),
      FileRow("c", "Alpha", "999999999", "180", "7000"),
      FileRow("d", "Beta", "100000000", "240", "5000"),
      FileRow("e", "Alpha", "99999999", "180", ""),
      FileRow("f", "Beta", "1B", "240", "5000"),
      FileRow("g", "Alpha", "5", "", "7000"),
      FileRow("h", "", "5", "180", "") }

RECURSIVE SeqsUpTo(_, _)
SeqsUpTo(S, n) ==
    IF n = 0 THEN {<<>>}
    ELSE LET shorter == SeqsUpTo(S, n - 1)
         IN  shorter \cup
             {Append(s, x) : s \in {t \in shorter : Len(t) = n - 1}, x \in S}

\* A file of n rows of which the first withFollowers have follower data and
\* the first mega are mega hits.
LargeFile(n, withFollowers, mega) ==
    [i \in 1..n |->
        FileRow("t", IF i % 2 = 0 THEN "Alpha" ELSE "Beta",
                IF i <= mega THEN "1000000000" ELSE "5",
                IF i % 3 = 0 THEN "240" ELSE "180",
                IF i <= withFollowers THEN "5000" ELSE "")]

Project(rows, cols) ==
    [i \in DOMAIN rows |-> [c \in cols |-> rows[i][c]]]

CsvFile(exists, readable, cols, rows) ==
    [exists |-> exists, readable |-> readable, columns |-> cols,
     rows |-> Project(rows, cols)]

\* The files a run may be given: no file, an unreadable file, a file that
\* lacks one column, and a well-formed file of up to MaxRows rows.
SmallFiles ==
    {CsvFile(FALSE, FALSE, {}, <<>>), CsvFile(TRUE, FALSE, {}, <<>>)}
    \cup {CsvFile(TRUE, TRUE, AllColumns \ {c}, rows) :
            c \in AllColumns, rows \in SeqsUpTo(FileRows, 1)}
    \cup {CsvFile(TRUE, TRUE, AllColumns, rows) :
            rows \in SeqsUpTo(FileRows, MaxRows)}

\* The files of about a hundred rows (the size of the data set the program
\* is written for): 2 mega hits, and 99, 100 or 101 rows with follower data.
LargeFiles ==
    {CsvFile(TRUE, TRUE, AllColumns, LargeFile(n, w, 2)) :
            n \in {FollowerChartMin, FollowerChartMin + 1},
            w \in {FollowerChartMin - 1, FollowerChartMin,
                    FollowerChartMin + 1}}

\* A file of ScenarioRows rows whose k-th row has an empty view_count and
\* whose other rows are complete, with view counts that differ.
ScenarioFile(k) ==
    LET views == <<"5", "99999999", "100000000", "999999999", "1000000000">>
    IN  [i \in 1..ScenarioRows |->
            IF i = k THEN FileRow("x", "Alpha", "", "180", "7000")
            ELSE FileRow("t", IF i % 2 = 0 THEN "Alpha" ELSE "Beta",
                         views[((i - 1) % Len(views)) + 1], "180", "5000")]

ScenarioFiles ==
    {CsvFile(TRUE, TRUE, AllColumns, ScenarioFile(k)) : k \in 1..ScenarioRows}

\* ----------------------------------------------------------------- state

VARIABLES
    csv,            \* the file csv_file names (an input: never written)
    dirExists,      \* whether the directory analytics_output exists
    files,          \* the files written into analytics_output
    pc,             \* where run_analysis is
    exc,            \* the exception being propagated, NoExc when none
    df,             \* self.df
    insights,       \* self.insights
    console,        \* what this call of run_analysis has printed, in order
    removed_count,  \* load_and_clean_data's removed_count
    eda,            \* exploratory_data_analysis's top_songs, top_channels
    stat,           \* statistical_analysis's correlations and bucket counts
    viz             \* create_visualizations's chart position, viz_count, and
                    \* whether it has made the output directory

vars ==
    <<csv, dirExists, files, pc, exc, df, insights, console, removed_count,
      eda, stat, viz>>

None == [none |-> TRUE, columns |-> {}, rows |-> <<>>]
Table(cols, rows) == [none |-> FALSE, columns |-> cols, rows |-> rows]

NoExc == [type |-> "", msg |-> ""]
Exc(type, msg) == [type |-> type, msg |-> msg]

\* One printed line: what it is and the value formatted into it.
Line(tag, val) == [tag |-> tag, val |-> val]

\* ------------------------------------------------- load_and_clean_data

\* pd.read_csv: the rows of the file in file order, indexed 1..n.
ReadCsv(file) ==
    Table(file.columns,
          [i \in DOMAIN file.rows |-> file.rows[i] @@ ("idx" :> i)])

\* self.df[col] = pd.to_numeric(self.df[col], errors='coerce')
Coerce(t, col) ==
    Table(t.columns,
          [i \in DOMAIN t.rows |->
              [t.rows[i] EXCEPT ![col] = ToNumeric(t.rows[i][col])]])

\* A row dropna(subset=['view_count', 'duration', 'channel']) removes.
MissingRequired(row) ==
    \/ row["view_count"] = NaN
    \/ row["duration"] = NaN
    \/ row["channel"] = ""

\* A mutation of DropNa: rows with an unparseable or empty duration are kept.
DropNaIgnoringDuration(t) ==
    LET Keep(row) == ~(row["view_count"] = NaN \/ row["channel"] = "")
    IN  Table(t.columns, SelectSeq(t.rows, Keep))

DropNa(t) ==
    LET Keep(row) == ~MissingRequired(row)
    IN  Table(t.columns, SelectSeq(t.rows, Keep))

\* The derived columns: duration / 60, view_count / 1e9, view_count / 1e6,
\* each quotient kept as <<numerator, denominator>>.
AddDerived(t) ==
    Table(t.columns \cup
            {"duration_minutes", "views_in_billions", "views_in_millions"},
          [i \in DOMAIN t.rows |->
              t.rows[i]
              @@ ("duration_minutes" :> <<t.rows[i]["duration"], 60>>)
              @@ ("views_in_billions" :>
                    <<t.rows[i]["view_count"], 1000000000>>)
              @@ ("views_in_millions" :>
                    <<t.rows[i]["view_count"], 1000000>>)])

\* A mutation of ReadCsvError: a file that cannot be read is read as empty.
ReadCsvErrorMissingOnly(file) ==
    IF ~file.exists THEN Exc("FileNotFoundError", "No such file or directory")
    ELSE NoExc

\* The exception pd.read_csv raises for the file, NoExc when it reads it.
ReadCsvError(file) ==
    IF ~file.exists THEN Exc("FileNotFoundError", "No such file or directory")
    ELSE IF ~file.readable THEN Exc("PermissionError", "Permission denied")
    ELSE NoExc

\* The first column load_and_clean_data uses that the table lacks, in the
\* order the code reaches them ("" when it has them all).
FirstMissingColumn(t) ==
    IF "view_count" \notin t.columns THEN "view_count"
    ELSE IF "duration" \notin t.columns THEN "duration"
    ELSE IF "channel_follower_count" \notin t.columns
         THEN "channel_follower_count"
    ELSE IF "channel" \notin t.columns THEN "channel"
    ELSE ""

\* The columns coerced before the code reaches column `missing`.
CoercedBefore(missing) ==
    IF missing = "view_count" THEN <<>>
    ELSE IF missing = "duration" THEN <<"view_count">>
    ELSE IF missing = "channel_follower_count"
         THEN <<"view_count", "duration">>
    ELSE <<"view_count", "duration", "channel_follower_count">>

RECURSIVE CoerceAll(_, _)
CoerceAll(t, cols) ==
    IF cols = <<>> THEN t
    ELSE CoerceAll(Coerce(t, Head(cols)), Tail(cols))

\* A mutation of RemovedCount: the rows are counted after they are dropped.
RemovedCountAfterDrop(before, after) == Len(after.rows) - Len(after.rows)

\* removed_count = original_count - len(self.df), where original_count is
\* the number of rows before dropna and self.df the table after it.
RemovedCount(before, after) == Len(before.rows) - Len(after.rows)

Banner == <<Line("banner", ""), Line("[1/6]", "")>>

\* load_and_clean_data as a function of the file: the table left in self.df,
\* the exception raised (NoExc when it returns), removed_count and the lines
\* printed.
LoadResult(file) ==
    IF ReadCsvError(file) # NoExc
    THEN [df |-> None, exc |-> ReadCsvError(file), removed |-> 0,
          out |-> Banner]
    ELSE
    LET read == ReadCsv(file)
        missing == FirstMissingColumn(read)
        coerced == CoerceAll(read, CoercedBefore(missing))
        loaded == <<Line("Loaded", Len(read.rows))>>
    IN  IF missing # ""
        THEN [df |-> coerced, exc |-> Exc("KeyError", missing), removed |-> 0,
              out |-> Banner \o loaded]
        ELSE
        LET kept == DropNa(coerced)
            removed == RemovedCount(coerced, kept)
        IN  [df |-> AddDerived(kept), exc |-> NoExc, removed |-> removed,
             out |-> Banner \o loaded
                     \o (IF removed > 0 THEN <<Line("Removed", removed)>>
                         ELSE <<>>)
                     \o <<Line("Data cleaning completed", "")>>]

\* load_and_clean_data: when read_csv raises, self.df is not assigned and
\* stays what it was.
LoadAndCleanData ==
    /\ pc = "load"
    /\ LET r == LoadResult(csv)
       IN  /\ df' = IF ReadCsvError(csv) = NoExc THEN r.df ELSE df
           /\ exc' = r.exc
           /\ removed_count' = r.removed
           /\ console' = console \o r.out
           /\ pc' = IF r.exc = NoExc THEN "eda" ELSE "except"
    /\ UNCHANGED <<csv, dirExists, files, insights, eda, stat, viz>>

\* ------------------------------------------- exploratory_data_analysis

\* A sum of view counts, kept as <<billions, rest>> so that it stays exact
\* beyond the range of TLC's 32-bit integers.
Billion == 1000 * 1000000
Total(v) == <<v \div Billion, v % Billion>>
Plus(a, b) ==
    LET rest == a[2] + b[2]
    IN  IF rest >= Billion THEN <<a[1] + b[1] + 1, rest - Billion>>
        ELSE <<a[1] + b[1], rest>>
Greater(a, b) == a[1] > b[1] \/ (a[1] = b[1] /\ a[2] > b[2])

RECURSIVE SumViewsOf(_, _, _)
\* The sum of view_count over rows lo..hi, by halves.
SumViewsOf(rows, lo, hi) ==
    IF lo > hi THEN Total(0)
    ELSE IF lo = hi THEN Total(rows[lo]["view_count"])
    ELSE LET mid == (lo + hi) \div 2
         IN  Plus(SumViewsOf(rows, lo, mid), SumViewsOf(rows, mid + 1, hi))

\* self.df['view_count'].sum() over a sequence of rows.
SumViews(rows) == SumViewsOf(rows, 1, Len(rows))

\* The channel names of the files, in the sorted order groupby puts its keys.
ChannelNames == <<"Alpha", "Beta">>

\* groupby('channel'): the channels of the table, sorted by name (rows whose
\* channel is missing belong to no group).
GroupKeys(t) ==
    LET Occurs(c) == \E i \in DOMAIN t.rows : t.rows[i]["channel"] = c
    IN  SelectSeq(ChannelNames, Occurs)

RowsOf(t, c) ==
    LET In(row) == row["channel"] = c
    IN  SelectSeq(t.rows, In)

\* groupby('channel').agg({'view_count': 'sum', 'title': 'count'}), one row a
\* group, in the order of GroupKeys.
ChannelTable(t) ==
    LET keys == GroupKeys(t)
        Titled(row) == row["title"] # ""
    IN  [k \in DOMAIN keys |->
            [channel |-> keys[k],
             total |-> SumViews(RowsOf(t, keys[k])),
             songs |-> Len(SelectSeq(RowsOf(t, keys[k]), Titled))]]

\* Series.idxmax(): the first group, in group order, whose sum is the largest.
IdxMax(groups) ==
    LET k == CHOOSE k \in DOMAIN groups :
                /\ \A j \in DOMAIN groups : ~Greater(groups[j].total, groups[k].total)
                /\ \A j \in 1..(k - 1) : Greater(groups[k].total, groups[j].total)
    IN  groups[k].channel

\* The orders sort_values(ascending=False) may give entries with these keys
\* (sums of views): any order in which no entry comes before a greater one.
\* The default sort is not stable, so entries with equal keys may come in
\* any order.
DescendingOrders(keys) ==
    {p \in Permutations(DOMAIN keys) :
        \A a, b \in DOMAIN keys : a < b => ~Greater(keys[p[b]], keys[p[a]])}

Min(a, b) == IF a < b THEN a ELSE b
FirstN(s, n) == SubSeq(s, 1, Min(n, Len(s)))

\* The first m of the entries with these keys in stable descending order (a
\* mergesort of the negated keys): greater keys first, equal keys in their
\* original order.
StableLargest(keys, m) ==
    LET n == Len(keys)
        rank == [i \in 1..n |->
                    Cardinality({j \in 1..n :
                        \/ Greater(keys[j], keys[i])
                        \/ (keys[j] = keys[i] /\ j < i)}) + 1]
    IN  [k \in 1..Min(m, n) |-> CHOOSE i \in 1..n : rank[i] = k]

\* The orders DataFrame.nlargest(n, 'view_count') may give the rows: with
\* no more than n rows it sorts them all (sort_values), otherwise it selects
\* the n largest with a stable sort (keep='first').
NLargestOrders(rows, n) ==
    LET keys == [i \in DOMAIN rows |-> Total(rows[i]["view_count"])]
    IN  IF n >= Len(rows) THEN DescendingOrders(keys)
        ELSE {StableLargest(keys, n)}

\* The rows of the table at the positions of order.
Take(rows, order) == [k \in DOMAIN order |-> rows[order[k]]]

\* The columns top_songs keeps of a row (and the row's index label).
SongView(row) ==
    [c \in {"title", "channel", "view_count", "duration_string", "idx"} |->
        row[c]]

\* nlargest(1, 'view_count')['title'].values[0]
MostViewedTitle(t) ==
    Take(t.rows, CHOOSE o \in NLargestOrders(t.rows, 1) : TRUE)[1]["title"]

\* The exception exploratory_data_analysis raises on the table, NoExc when
\* it completes: idxmax of no group, then the columns of top_songs.
EdaError(t) ==
    IF Len(t.rows) = 0
    THEN Exc("ValueError", "attempt to get argmax of an empty sequence")
    ELSE IF "title" \notin t.columns THEN Exc("KeyError", "title")
    ELSE IF "duration_string" \notin t.columns
         THEN Exc("KeyError", "duration_string")
    ELSE NoExc

EdaInsights(t) ==
    << [text |-> "Dataset contains songs from channels",
        args |-> <<Len(t.rows), Len(GroupKeys(t))>>],
       [text |-> "Total combined views", args |-> SumViews(t.rows)],
       [text |-> "Most viewed song", args |-> MostViewedTitle(t)] >>

NoEda == [top_songs |-> <<>>, top_channels |-> <<>>]

ExploratoryDataAnalysis ==
    /\ pc = "eda"
    /\ IF EdaError(df) # NoExc
       THEN /\ exc' = EdaError(df)
            /\ pc' = "except"
            /\ console' = console \o
                 <<Line("[2/6]", ""), Line("DATASET STATISTICS", "")>>
                 \o (IF Len(df.rows) = 0 THEN <<>>
                     ELSE <<Line("statistics", <<>>),
                            Line("TOP 20 MOST VIEWED SONGS", "")>>)
            /\ UNCHANGED <<insights, eda>>
       ELSE \E songOrder \in NLargestOrders(df.rows, TopSongsN) :
            LET groups == ChannelTable(df)
                totals == [k \in DOMAIN groups |-> groups[k].total]
            IN  \E channelOrder \in DescendingOrders(totals) :
                LET top_songs ==
                        [k \in DOMAIN songOrder |->
                            SongView(df.rows[songOrder[k]])]
                    top_channels ==
                        FirstN(Take(groups, channelOrder), TopChannelsN)
                IN  /\ eda' = [top_songs |-> top_songs,
                               top_channels |-> top_channels]
                    /\ console' = console \o
                         <<Line("[2/6]", ""), Line("DATASET STATISTICS", ""),
                           Line("statistics",
                                <<Len(df.rows), Len(groups),
                                  SumViews(df.rows), IdxMax(groups)>>),
                           Line("TOP 20 MOST VIEWED SONGS", top_songs),
                           Line("TOP 10 CHANNELS BY TOTAL VIEWS",
                                top_channels),
                           Line("EDA completed", "")>>
                    /\ insights' = insights \o EdaInsights(df)
                    /\ exc' = NoExc
                    /\ pc' = "stats"
    /\ UNCHANGED <<csv, dirExists, files, df, removed_count, stat, viz>>

\* ------------------------------------------------ statistical_analysis

\* Comparisons of a numeric cell with a number: false of NaN, as in the code.
AtLeast(x, v) == x # NaN /\ x >= v
Below(x, v) == x # NaN /\ x < v

\* A mutation of MegaHits: the boundary value itself is left out.
MegaHitsExclusive(t) ==
    Cardinality({i \in DOMAIN t.rows :
        t.rows[i]["view_count"] # NaN /\ t.rows[i]["view_count"] > MegaHitMin})

\* len(self.df[self.df['view_count'] >= 1_000_000_000])
MegaHits(t) ==
    Cardinality({i \in DOMAIN t.rows :
        AtLeast(t.rows[i]["view_count"], MegaHitMin)})

\* len(self.df[(view_count >= 100_000_000) & (view_count < 1_000_000_000)])
Popular(t) ==
    Cardinality({i \in DOMAIN t.rows :
        /\ AtLeast(t.rows[i]["view_count"], PopularMin)
        /\ Below(t.rows[i]["view_count"], MegaHitMin)})

\* len(self.df[self.df['view_count'] < 100_000_000])
Moderate(t) ==
    Cardinality({i \in DOMAIN t.rows :
        Below(t.rows[i]["view_count"], PopularMin)})

\* num / den rounded to the nearest integer, a tie to the even one.
RoundHalfEven(num, den) ==
    LET q == num \div den
        r == num % den
    IN  IF 2 * r < den THEN q
        ELSE IF 2 * r > den THEN q + 1
        ELSE IF q % 2 = 0 THEN q ELSE q + 1

\* A mutation of Percent: the share is cut, not rounded, to one decimal.
PercentTruncated(count, total) == (1000 * count) \div total

\* f"{count/total*100:.1f}": the percentage as printed, in tenths of a percent.
Percent(count, total) == RoundHalfEven(1000 * count, total)

\* df[['view_count', 'duration', 'channel_follower_count']].dropna(): the
\* rows with a value in all three columns.
CorrelationData(t) ==
    LET Complete(row) ==
            /\ row["view_count"] # NaN
            /\ row["duration"] # NaN
            /\ row["channel_follower_count"] # NaN
    IN  SelectSeq(t.rows, Complete)

Column(rows, col) == [i \in DOMAIN rows |-> rows[i][col]]

\* Series.corr on paired observations without missing values: what is printed
\* is nan for fewer than two observations and for a constant column, a
\* coefficient ("r") otherwise.
PearsonCorr(xs, ys) ==
    IF \/ Len(xs) < 2
       \/ \A i, j \in DOMAIN xs : xs[i] = xs[j]
       \/ \A i, j \in DOMAIN ys : ys[i] = ys[j]
    THEN "nan"
    ELSE "r"

\* One use of Series.corr: the two columns, the index labels of the rows it
\* is computed over, and the value printed.
CorrCall(rows, a, b) ==
    [pair |-> <<a, b>>, over |-> Column(rows, "idx"),
     value |-> PearsonCorr(Column(rows, a), Column(rows, b))]

\* The correlations statistical_analysis computes, in order.
Correlations(t) ==
    LET data == CorrelationData(t)
        HasFollowers(row) == row["channel_follower_count"] # NaN
    IN  IF Len(data) > 0
        THEN <<CorrCall(data, "duration", "view_count")>>
             \o (IF \E i \in DOMAIN data : HasFollowers(data[i])
                 THEN <<CorrCall(data, "channel_follower_count",
                                 "view_count")>>
                 ELSE <<>>)
        ELSE <<>>

\* The three popularity lines statistical_analysis prints: count and
\* percentage of each bucket.
PopularityLines(t) ==
    << [bucket |-> "Mega Hits", count |-> MegaHits(t),
        percent |-> Percent(MegaHits(t), Len(t.rows))],
       [bucket |-> "Popular", count |-> Popular(t),
        percent |-> Percent(Popular(t), Len(t.rows))],
       [bucket |-> "Moderate", count |-> Moderate(t),
        percent |-> Percent(Moderate(t), Len(t.rows))] >>

RECURSIVE SumColumnOf(_, _, _, _)
\* The sum of column col over rows lo..hi, by halves.
SumColumnOf(rows, col, lo, hi) ==
    IF lo > hi THEN 0
    ELSE IF lo = hi THEN rows[lo][col]
    ELSE LET mid == (lo + hi) \div 2
         IN  SumColumnOf(rows, col, lo, mid)
             + SumColumnOf(rows, col, mid + 1, hi)

SumColumn(rows, col) == SumColumnOf(rows, col, 1, Len(rows))

\* f"{self.df['duration_minutes'].mean():.2f}": the mean duration in
\* hundredths of a minute.
MeanDurationMinutes(t) ==
    RoundHalfEven(100 * SumColumn(t.rows, "duration"), 60 * Len(t.rows))

StatInsights(t) ==
    << [text |-> "songs have achieved 'mega hit' status",
        args |-> MegaHits(t)],
       [text |-> "Average song duration is", args |-> MeanDurationMinutes(t)] >>

NoStat == [corr |-> <<>>, popularity |-> <<>>]

\* A mutation of StatisticalAnalysis: the rows without a value in one of the
\* three correlation columns are dropped from self.df itself.
StatisticalAnalysisDroppingRows ==
    /\ pc = "stats"
    /\ stat' = [corr |-> Correlations(df), popularity |-> PopularityLines(df)]
    /\ console' = console \o
         <<Line("[3/6]", ""), Line("Correlation Analysis", Correlations(df)),
           Line("Popularity Categories", PopularityLines(df)),
           Line("Statistical analysis completed", "")>>
    /\ insights' = insights \o StatInsights(df)
    /\ df' = Table(df.columns, CorrelationData(df))
    /\ pc' = "viz"
    /\ UNCHANGED <<csv, dirExists, files, exc, removed_count, eda, viz>>

StatisticalAnalysis ==
    /\ pc = "stats"
    /\ stat' = [corr |-> Correlations(df), popularity |-> PopularityLines(df)]
    /\ console' = console \o
         <<Line("[3/6]", ""), Line("Correlation Analysis", Correlations(df)),
           Line("Popularity Categories", PopularityLines(df)),
           Line("Statistical analysis completed", "")>>
    /\ insights' = insights \o StatInsights(df)
    /\ pc' = "viz"
    /\ UNCHANGED <<csv, dirExists, files, exc, df, removed_count, eda, viz>>

\* ------------------------------------------------ create_visualizations

\* The file each chart is saved to, in the order the code draws them.
ChartFile ==
    <<"01_top_15_songs.png", "02_top_10_channels.png",
      "03_view_distribution.png", "04_duration_vs_views.png",
      "05_duration_distribution.png", "06_followers_vs_views.png",
      "07_popularity_distribution.png", "08_top_channels_by_count.png",
      "09_correlation_heatmap.png">>

ReportFile == "INSIGHTS_REPORT.txt"

\* self.df[self.df['channel_follower_count'].notna()]
FollowersData(t) ==
    LET HasFollowers(row) == row["channel_follower_count"] # NaN
    IN  SelectSeq(t.rows, HasFollowers)

\* Whether the code draws chart k at all: chart 6 only with enough rows that
\* have follower data.
ChartDrawn(t, k) ==
    k = 6 => Len(FollowersData(t)) > FollowerChartMin

\* What chart k shows of the table, as far as it is modelled: the number of
\* points of the followers chart, the sizes of the pie chart.
ChartData(t, k) ==
    IF k = 6 THEN <<Len(FollowersData(t))>>
    ELSE IF k = 7 THEN <<MegaHits(t), Popular(t), Moderate(t)>>
    ELSE <<>>

\* The file `name` written with `content` (written again: overwritten).
WriteFile(fs, name, content) ==
    [f \in DOMAIN fs \cup {name} |-> IF f = name THEN content ELSE fs[f]]

\* create_visualizations before it is called: made is whether its call of
\* os.makedirs has made the output directory.
NoViz == [next |-> 0, viz_count |-> 0, made |-> FALSE]

\* A mutation of CreateVisualizations: the output directory is never made.
CreateVisualizationsWithoutMakedirs ==
    /\ pc = "viz"
    /\ console' = Append(console, Line("[4/6]", ""))
    /\ viz' = [next |-> 1, viz_count |-> 0, made |-> FALSE]
    /\ pc' = "chart"
    /\ UNCHANGED <<csv, dirExists, files, exc, df, insights, removed_count,
                   eda, stat>>

\* The head of create_visualizations: the output directory is made when it
\* is not there (os.makedirs can raise: nothing may be created where the
\* program runs), and viz_count starts at 0.
CreateVisualizations ==
    /\ pc = "viz"
    /\ console' = Append(console, Line("[4/6]", ""))
    /\ \E made \in BOOLEAN :
        IF dirExists \/ made
        THEN /\ dirExists' = TRUE
             /\ viz' = [next |-> 1, viz_count |-> 0, made |-> ~dirExists]
             /\ pc' = "chart"
             /\ exc' = exc
        ELSE /\ exc' = Exc("OSError", "analytics_output")
             /\ pc' = "except"
             /\ UNCHANGED <<dirExists, viz>>
    /\ UNCHANGED <<csv, files, df, insights, removed_count, eda, stat>>

\* The next chart of create_visualizations.  A chart that is drawn is built
\* with matplotlib and saved with savefig; either can raise (no value to
\* plot, no room on the disk, no directory), and nothing in
\* create_visualizations catches what a chart raises.
RenderChart ==
    /\ pc = "chart"
    /\ LET k == viz.next
           last == k = NumCharts
       IN  IF ~ChartDrawn(df, k)
           THEN /\ viz' = [viz EXCEPT !.next = k + 1]
                /\ pc' = IF last THEN "report" ELSE "chart"
                /\ UNCHANGED <<files, exc, console>>
           ELSE \E rendered \in BOOLEAN :
                IF rendered /\ dirExists
                THEN /\ files' = WriteFile(files, ChartFile[k], ChartData(df, k))
                     /\ viz' = [viz EXCEPT !.next = k + 1,
                                           !.viz_count = viz.viz_count + 1]
                     /\ console' = console \o
                          <<Line("Created visualization", viz.viz_count + 1)>>
                          \o (IF last
                              THEN <<Line("All visualizations saved",
                                          viz.viz_count + 1)>>
                              ELSE <<>>)
                     /\ pc' = IF last THEN "report" ELSE "chart"
                     /\ exc' = exc
                ELSE /\ exc' = Exc("RenderError", ChartFile[k])
                     /\ pc' = "except"
                     /\ UNCHANGED <<files, viz, console>>
    /\ UNCHANGED <<csv, dirExists, df, insights, removed_count, eda, stat>>

\* -------------------------------------------- generate_insights_report

\* len(self.df[self.df['duration_minutes'] < 3])
ShortSongs(t) ==
    Cardinality({i \in DOMAIN t.rows :
        t.rows[i]["duration_minutes"][1]
            < 3 * t.rows[i]["duration_minutes"][2]})

\* A mutation of NumberedInsights: the insights are numbered from 0.
NumberedInsightsFromZero(list) ==
    [i \in DOMAIN list |-> Line("insight", <<i - 1, list[i]>>)]

\* The insights as the report lists them: enumerate(self.insights, 1).
NumberedInsights(list) ==
    [i \in DOMAIN list |-> Line("insight", <<i, list[i]>>)]

\* The text of the report, line by line.
ReportText(t, list) ==
    <<Line("Total songs analyzed", Len(t.rows)),
      Line("Unique channels", Len(GroupKeys(t))),
      Line("Combined views", SumViews(t.rows)),
      Line("Most viewed song", MostViewedTitle(t)),
      Line("Top channel", IdxMax(ChannelTable(t))),
      Line("Key Insights", "")>>
    \o NumberedInsights(list)
    \o <<Line("Average song duration", MeanDurationMinutes(t)),
         Line("Songs under 3 minutes",
              <<ShortSongs(t), Percent(ShortSongs(t), Len(t.rows))>>),
         Line("Mega hits",
              <<MegaHits(t), Percent(MegaHits(t), Len(t.rows))>>),
         Line("Popular",
              <<Popular(t), Percent(Popular(t), Len(t.rows))>>),
         Line("END OF REPORT", "")>>

\* generate_insights_report: the report is built, written to the report file
\* (open can raise) and printed.
GenerateInsightsReport ==
    /\ pc = "report"
    /\ \E written \in BOOLEAN :
        IF written /\ dirExists
        THEN /\ files' = WriteFile(files, ReportFile, ReportText(df, insights))
             /\ console' = console \o
                  <<Line("[5/6]", ""),
                    Line("report", ReportText(df, insights)),
                    Line("Report saved", "")>>
             /\ pc' = "complete"
             /\ exc' = exc
        ELSE /\ exc' = Exc("OSError", ReportFile)
             /\ console' = Append(console, Line("[5/6]", ""))
             /\ pc' = "except"
             /\ files' = files
    /\ UNCHANGED <<csv, dirExists, df, insights, removed_count, eda, stat, viz>>

\* ------------------------------------------------------- run_analysis

\* Step 6 of run_analysis: every stage has returned.
Complete ==
    /\ pc = "complete"
    /\ console' = console \o
         <<Line("[6/6]", ""), Line("ANALYSIS COMPLETED SUCCESSFULLY", "")>>
    /\ pc' = "returned"
    /\ UNCHANGED <<csv, dirExists, files, exc, df, insights, removed_count,
                   eda, stat, viz>>

\* A mutation of ExceptHandler: the error is reported and the run goes on to
\* its completion message.
ExceptHandlerResuming ==
    /\ pc = "except"
    /\ console' = console \o <<Line("Error during analysis", exc.msg),
                               Line("traceback", exc.type)>>
    /\ exc' = NoExc
    /\ pc' = "complete"
    /\ UNCHANGED <<csv, dirExists, files, df, insights, removed_count, eda,
                   stat, viz>>

\* A mutation of ExceptHandler: the error is reported and raised again, to
\* the caller of run_analysis.
ExceptHandlerReraising ==
    /\ pc = "except"
    /\ console' = console \o <<Line("Error during analysis", exc.msg),
                               Line("traceback", exc.type)>>
    /\ pc' = "returned"
    /\ UNCHANGED <<csv, dirExists, files, exc, df, insights, removed_count,
                   eda, stat, viz>>

\* except Exception as e: print the message and the traceback, and return.
ExceptHandler ==
    /\ pc = "except"
    /\ console' = console \o <<Line("Error during analysis", exc.msg),
                               Line("traceback", exc.type)>>
    /\ exc' = NoExc
    /\ pc' = "returned"
    /\ UNCHANGED <<csv, dirExists, files, df, insights, removed_count, eda,
                   stat, viz>>

\* The exit status of the process when main is over: main does nothing after
\* run_analysis and sets no status, so it is 0 unless an exception leaves
\* run_analysis (the interpreter then ends with status 1).
ExitStatus == IF exc = NoExc THEN 0 ELSE 1

\* The state in which run_analysis is called on a new YouTubeMusicAnalytics.
Started ==
    /\ dirExists \in BOOLEAN
    /\ files = <<>>
    /\ pc = "load"
    /\ exc = NoExc
    /\ df = None
    /\ insights = <<>>
    /\ console = <<>>
    /\ removed_count = 0
    /\ eda = NoEda
    /\ stat = NoStat
    /\ viz = NoViz

\* A run on one of the files.
Init == csv \in SmallFiles \cup ScenarioFiles \cup LargeFiles /\ Started

Next ==
    \/ LoadAndCleanData
    \/ ExploratoryDataAnalysis
    \/ StatisticalAnalysis
    \/ CreateVisualizations
    \/ RenderChart
    \/ GenerateInsightsReport
    \/ Complete
    \/ ExceptHandler

\* run_analysis is called again on the same YouTubeMusicAnalytics: self.df
\* and self.insights are what the last call left, and so are the output
\* directory and its files; the locals of the stages are new, and console
\* holds what this call prints.
RunAnalysisAgain ==
    /\ pc = "returned"
    /\ Len(insights) < MaxInsights
    /\ pc' = "load"
    /\ console' = <<>>
    /\ removed_count' = 0
    /\ eda' = NoEda
    /\ stat' = NoStat
    /\ viz' = NoViz
    /\ UNCHANGED <<csv, dirExists, files, exc, df, insights>>

\* The files analyzed more than once: the small files of up to MaxRepeatRows
\* rows.
RepeatFiles == {file \in SmallFiles : Len(file.rows) <= MaxRepeatRows}

InitRepeated == csv \in RepeatFiles /\ Started

NextRepeated ==
    \/ Next
    \/ RunAnalysisAgain

\* ================================================================ claims

Tags(lines) == [i \in DOMAIN lines |-> lines[i].tag]
Printed(tag) == \E i \in DOMAIN console : console[i].tag = tag

\* The stage markers "[k/6]" in the order the stages print them.
StageMarkers == <<"[1/6]", "[2/6]", "[3/6]", "[4/6]", "[5/6]", "[6/6]">>

MarkersPrinted ==
    LET IsMarker(tag) == \E k \in DOMAIN StageMarkers : StageMarkers[k] = tag
    IN  SelectSeq(Tags(console), IsMarker)

IsPrefix(a, b) == Len(a) <= Len(b) /\ SubSeq(b, 1, Len(a)) = a

\* The handler of run_analysis has reported an error.
Failed == Printed("Error during analysis")

\* The error report is the last thing printed.
ErrorPrintedLast ==
    /\ Len(console) >= 2
    /\ console[Len(console) - 1].tag = "Error during analysis"
    /\ console[Len(console)].tag = "traceback"

ChartsSaved == {k \in 1..NumCharts : ChartFile[k] \in DOMAIN files}

\* C1: the stages of a run start in the order load/clean, exploratory,
\* statistical, visualization, report, completion, each at most once; a stage
\* that raises leads to the handler, which reports the error, after which
\* nothing more is printed or written: no later stage starts, no report file
\* is written after a failed visualization stage, and the completion message
\* is never printed after a failure.
C1_StagesInOrder ==
    /\ IsPrefix(MarkersPrinted, StageMarkers)
    /\ pc = "except" => exc # NoExc /\ ~Failed
    /\ pc = "returned" => (Failed # Printed("[6/6]"))
    /\ Failed =>
        /\ pc = "returned"
        /\ ErrorPrintedLast
        /\ ~Printed("ANALYSIS COMPLETED SUCCESSFULLY")
        /\ ~Printed("[5/6]") => ReportFile \notin DOMAIN files

\* A run that failed in the visualization stage after saving two charts.
C1_Witness ==
    /\ pc = "returned"
    /\ Failed
    /\ MarkersPrinted = SubSeq(StageMarkers, 1, 4)
    /\ ChartsSaved = {1, 2}
    /\ ReportFile \notin DOMAIN files

\* C2: an error of one chart is caught inside create_visualizations: it does
\* not leave the stage, and when the stage is over every chart after the
\* failed one has been reached.
C2_ChartErrorsCaught ==
    /\ ~(pc = "except" /\ exc.type = "RenderError")
    /\ Printed("[4/6]") /\ pc = "returned" => viz.next = NumCharts + 1

\* load_and_clean_data has returned (without raising).
Cleaned == Printed("Data cleaning completed")

\* C3: after load_and_clean_data the cleaned table has no more rows than the
\* file, each of its rows is a row of the file, in file order, and none lacks
\* view_count, duration or channel, where a view_count or duration whose text
\* is no number counts as missing.
C3_CleaningDropsIncompleteRows ==
    Cleaned =>
        /\ Len(df.rows) <= Len(csv.rows)
        /\ \A i \in DOMAIN df.rows :
            LET row == df.rows[i]
                cells == csv.rows[row["idx"]]
            IN  /\ row["view_count"] # NaN
                /\ row["duration"] # NaN
                /\ row["channel"] # ""
                /\ cells["view_count"] \in DOMAIN NumericText
                /\ cells["duration"] \in DOMAIN NumericText
                /\ cells["channel"] # ""
        /\ \A i, j \in DOMAIN df.rows :
            i < j => df.rows[i]["idx"] < df.rows[j]["idx"]

\* A file with an unparseable view_count, an empty duration and a complete
\* row has been cleaned.
C3_Witness ==
    /\ Cleaned
    /\ Len(df.rows) = 1
    /\ Len(csv.rows) = 3
    /\ \E i \in DOMAIN csv.rows : csv.rows[i]["view_count"] = "1B"
    /\ \E i \in DOMAIN csv.rows : csv.rows[i]["duration"] = ""

\* create_visualizations is past chart 6.
PastFollowersChart == viz.next > 6

\* C4: the followers chart is left out when fewer than 100 rows have follower
\* data and drawn when their number reaches 100; when it is left out and the
\* stage completes, the eight other charts have been saved.
C4_FollowersChartAtThreshold ==
    PastFollowersChart =>
        /\ Len(FollowersData(df)) < FollowerChartMin
              => ChartFile[6] \notin DOMAIN files
        /\ Len(FollowersData(df)) >= FollowerChartMin
              => ChartFile[6] \in DOMAIN files
        /\ pc = "report" /\ ChartFile[6] \notin DOMAIN files
              => ChartsSaved = (1..NumCharts) \ {6}

\* statistical_analysis has returned.
Analyzed == Printed("Statistical analysis completed")

BucketCounts == [i \in DOMAIN stat.popularity |-> stat.popularity[i].count]

\* The number of buckets whose range holds the view count v.
BucketsHolding(v) ==
    (IF v >= MegaHitMin THEN 1 ELSE 0)
    + (IF v >= PopularMin /\ v < MegaHitMin THEN 1 ELSE 0)
    + (IF v < PopularMin THEN 1 ELSE 0)

\* C5: the counts statistical_analysis reports for the buckets mega hit
\* (>= 1e9), popular ([1e8, 1e9)) and moderate (< 1e8) are the numbers of rows
\* in those ranges, every row is in exactly one range, and the three counts
\* add up to the number of rows; the pie chart is drawn from the same counts.
C5_BucketsPartition ==
    Analyzed =>
        LET views == Column(df.rows, "view_count")
            count == BucketCounts
        IN  /\ count[1] = Cardinality({i \in DOMAIN views : views[i] >= MegaHitMin})
            /\ count[2] = Cardinality({i \in DOMAIN views :
                              views[i] >= PopularMin /\ views[i] < MegaHitMin})
            /\ count[3] = Cardinality({i \in DOMAIN views : views[i] < PopularMin})
            /\ \A i \in DOMAIN views : BucketsHolding(views[i]) = 1
            /\ count[1] + count[2] + count[3] = Len(df.rows)
            /\ ChartFile[7] \in DOMAIN files
                  => files[ChartFile[7]] = <<count[1], count[2], count[3]>>

\* A table with a row of exactly 1e9 views and a row of exactly 1e8 views has
\* been analyzed: one mega hit, one popular song.
C5_Witness ==
    /\ Analyzed
    /\ Len(df.rows) = 3
    /\ \E i \in DOMAIN df.rows : df.rows[i]["view_count"] = MegaHitMin
    /\ \E i \in DOMAIN df.rows : df.rows[i]["view_count"] = PopularMin
    /\ BucketCounts = <<1, 1, 1>>
    /\ ChartFile[7] \in DOMAIN files

Percents == [i \in DOMAIN stat.popularity |-> stat.popularity[i].percent]

Distance(a, b) == IF a >= b THEN a - b ELSE b - a

\* The value of the report's line `tag`.
ReportLine(tag) ==
    LET text == files[ReportFile]
    IN  text[CHOOSE i \in DOMAIN text : text[i].tag = tag].val

\* C6 as stated: each reported percentage is exactly count / total * 100, and
\* the three reported percentages add up to 100 (percentages in tenths).
C6_PercentagesExact ==
    Analyzed =>
        /\ \A i \in DOMAIN stat.popularity :
              Percents[i] * Len(df.rows) = 1000 * BucketCounts[i]
        /\ Percents[1] + Percents[2] + Percents[3] = 1000

\* C6, amended: the table analyzed is not empty; each reported percentage is
\* count / total * 100 rounded to one decimal, so that the three add up to
\* 100 to within 0.1; 2 mega hits of 100 rows are reported as 2.0%; and the
\* report gives the same counts and percentages for mega hits and popular.
C6_PercentagesRounded ==
    Analyzed =>
        LET n == Len(df.rows)
        IN  /\ n > 0
            /\ \A i \in DOMAIN stat.popularity :
                  2 * Distance(Percents[i] * n, 1000 * BucketCounts[i]) <= n
            /\ Distance(Percents[1] + Percents[2] + Percents[3], 1000) <= 1
            /\ n = 100 /\ BucketCounts[1] = 2 => Percents[1] = 20
            /\ ReportFile \in DOMAIN files =>
                  /\ ReportLine("Mega hits") = <<BucketCounts[1], Percents[1]>>
                  /\ ReportLine("Popular") = <<BucketCounts[2], Percents[2]>>

\* 2 of 100 rows are mega hits: reported as 2 songs, 2.0%, also in the report.
C6_Witness ==
    /\ Analyzed
    /\ Len(df.rows) = 100
    /\ BucketCounts = <<2, 0, 98>>
    /\ Percents = <<20, 0, 980>>
    /\ ReportFile \in DOMAIN files

\* The index labels of the rows of the table with a value in both columns.
PairedRows(a, b) ==
    LET Paired(row) == row[a] # NaN /\ row[b] # NaN
    IN  Column(SelectSeq(df.rows, Paired), "idx")

\* C7: each correlation is computed over exactly the rows that have a value
\* in both columns of its pair (a row that lacks only the third column is
\* among them).
C7_CorrelationOverPairedRows ==
    Analyzed =>
        \A i \in DOMAIN stat.corr :
            stat.corr[i].over =
                PairedRows(stat.corr[i].pair[1], stat.corr[i].pair[2])

\* C8: a correlation is computed only over at least 2 paired observations.
C8_CorrelationNeedsTwoRows ==
    Analyzed =>
        \A i \in DOMAIN stat.corr : Len(stat.corr[i].over) >= 2

\* load_and_clean_data has raised.
LoadRaised == pc = "except" /\ ~Printed("[2/6]")

\* The columns load_and_clean_data requires of a row, and those it uses.
RequiredColumns == {"view_count", "duration", "channel"}
LoadColumns == RequiredColumns \cup {"channel_follower_count"}

Explored == Printed("EDA completed")

\* The position in the table of the first row of the channel.
FirstOccurrence(channel) ==
    CHOOSE i \in DOMAIN df.rows :
        /\ df.rows[i]["channel"] = channel
        /\ \A j \in 1..(i - 1) : df.rows[j]["channel"] # channel

\* C10: in top_songs rows of equal view_count come in their order in the
\* table, and in top_channels channels of equal total views come in the order
\* of their first rows in the table.
C10_RankingStable ==
    Explored =>
        /\ \A a, b \in DOMAIN eda.top_songs :
              (/\ a < b
               /\ eda.top_songs[a]["view_count"] = eda.top_songs[b]["view_count"])
              => eda.top_songs[a]["idx"] < eda.top_songs[b]["idx"]
        /\ \A a, b \in DOMAIN eda.top_channels :
              (/\ a < b
               /\ eda.top_channels[a].total = eda.top_channels[b].total)
              => FirstOccurrence(eda.top_channels[a].channel)
                    < FirstOccurrence(eda.top_channels[b].channel)

\* create_visualizations is at a chart it draws: the state in which savefig
\* is called for the chart.
AtSavefig == pc = "chart" /\ ChartDrawn(df, viz.next)

InsightsListed ==
    LET IsInsight(line) == line.tag = "insight"
    IN  SelectSeq(files[ReportFile], IsInsight)

\* generate_insights_report has just written the report.
Reported == pc = "complete"

\* C12: over any number of runs on one instance, a step changes the insight
\* list only by adding entries at its end, and only a step of the exploratory
\* or the statistical stage does; the report stage leaves the list as it is
\* and lists its entries in order, the i-th numbered i.
C12_InsightsAppendOnly ==
    /\ [](Reported =>
            /\ Len(InsightsListed) = Len(insights)
            /\ \A i \in DOMAIN insights :
                  InsightsListed[i].val = <<i, insights[i]>>)
    /\ [][/\ IsPrefix(insights, insights')
          /\ insights' # insights => pc \in {"eda", "stats"}
          /\ pc = "report" => insights' = insights]_vars

\* The report of a second run lists the ten insights of both runs.
C12_Witness ==
    /\ Reported
    /\ Len(insights) = 10
    /\ SubSeq(insights, 1, 5) = SubSeq(insights, 6, 10)
    /\ Len(InsightsListed) = 10

\* The rows of the file that lack a required field: an empty channel, or a
\* view_count or duration that is empty or no number.
RowsLackingRequired ==
    {i \in DOMAIN csv.rows :
        \/ csv.rows[i]["view_count"] \notin DOMAIN NumericText
        \/ csv.rows[i]["duration"] \notin DOMAIN NumericText
        \/ csv.rows[i]["channel"] = ""}

\* The values of the lines "Removed ... rows" printed.
RemovedPrinted ==
    LET IsRemoved(line) == line.tag = "Removed"
    IN  Column(SelectSeq(console, IsRemoved), "val")

\* C13 as stated: whenever load_and_clean_data returns, it has put out the
\* count of removed rows, which is the number of rows loaded less the number
\* of rows kept.
C13_RemovedCountOutput ==
    Cleaned => RemovedPrinted = <<Len(csv.rows) - Len(df.rows)>>

\* C13, amended: removed_count is the number of rows loaded less the number
\* of rows kept, which is the number of rows of the file that lack a required
\* field; it is printed when it is positive, and nothing is printed of it
\* when no row was removed (the table is all load_and_clean_data returns).
\* Of ScenarioRows = 5 rows with one without view_count, 4 are kept and the
\* count printed is 1.
C13_RemovedCountPrintedIfPositive ==
    Cleaned =>
        /\ removed_count = Len(csv.rows) - Len(df.rows)
        /\ removed_count = Cardinality(RowsLackingRequired)
        /\ removed_count > 0 => RemovedPrinted = <<removed_count>>
        /\ removed_count = 0 => RemovedPrinted = <<>>
        /\ csv \in ScenarioFiles =>
              /\ Len(df.rows) = ScenarioRows - 1
              /\ RemovedPrinted = <<1>>

\* The file of five rows, one without view_count, has been cleaned: four rows
\* are left and "Removed 1 rows" has been printed.
C13_Witness ==
    /\ Cleaned
    /\ Len(csv.rows) = 5
    /\ Cardinality({i \in DOMAIN csv.rows : csv.rows[i]["view_count"] = ""}) = 1
    /\ Len(df.rows) = 4
    /\ RemovedPrinted = <<1>>

\* The value of the line `tag` printed.
ConsoleLine(tag) ==
    console[CHOOSE i \in DOMAIN console : console[i].tag = tag].val

\* C14: once load_and_clean_data is over, no step of a later stage changes
\* the table, and what the report gives for the number of songs, the number
\* of channels, the combined views, the top channel, the most viewed song,
\* the average duration and the bucket counts is what the exploratory and
\* the statistical stage printed or recorded for them; the pie chart is
\* drawn from the same bucket counts.
C14_LaterStagesLeaveDataset ==
    /\ [][pc # "load" => df' = df]_vars
    /\ [](Reported =>
            LET statistics == ConsoleLine("statistics")
            IN  /\ ReportLine("Total songs analyzed") = statistics[1]
                /\ ReportLine("Unique channels") = statistics[2]
                /\ ReportLine("Combined views") = statistics[3]
                /\ ReportLine("Top channel") = statistics[4]
                /\ insights[1].args = <<statistics[1], statistics[2]>>
                /\ insights[2].args = statistics[3]
                /\ ReportLine("Most viewed song") = insights[3].args
                /\ ReportLine("Mega hits")[1] = insights[4].args
                /\ ReportLine("Average song duration") = insights[5].args
                /\ ReportLine("Mega hits")[1] = BucketCounts[1]
                /\ ReportLine("Popular")[1] = BucketCounts[2]
                /\ ChartFile[7] \in DOMAIN files
                /\ files[ChartFile[7]] = BucketCounts)

\* A table with a row that has no follower count has gone through every
\* stage, with two channels and three songs counted by each.
C14_Witness ==
    /\ Reported
    /\ Len(df.rows) = 3
    /\ \E i \in DOMAIN df.rows : df.rows[i]["channel_follower_count"] = NaN
    /\ ConsoleLine("statistics")[2] = 2
    /\ ReportLine("Total songs analyzed") = 3

\* What the stages raise in the runs.
StageErrors ==
    {"FileNotFoundError", "PermissionError", "KeyError", "ValueError",
     "RenderError", "OSError"}

\* C15: an exception raised by a stage is nowhere but on its way to the
\* handler of run_analysis; when run_analysis is over it has returned
\* normally, after a failure as after a success: no exception is left for the
\* caller and the exit status is 0; the run has either printed its completion
\* message or, last, the error message and the traceback of what a stage
\* raised.
C15_ErrorsNeverPropagate ==
    /\ exc # NoExc => pc = "except" /\ exc.type \in StageErrors
    /\ pc = "returned" =>
          /\ exc = NoExc
          /\ ExitStatus = 0
          /\ Failed # Printed("ANALYSIS COMPLETED SUCCESSFULLY")
          /\ Failed =>
                /\ ErrorPrintedLast
                /\ console[Len(console)].val \in StageErrors

\* run_analysis has returned after its last stage failed: the charts are
\* saved, the report is not, and the error of open() has been printed.
C15_Witness ==
    /\ pc = "returned"
    /\ exc = NoExc
    /\ ChartsSaved # {}
    /\ ReportFile \notin DOMAIN files
    /\ ErrorPrintedLast
    /\ console[Len(console)].val = "OSError"
    /\ Printed("[5/6]")

Spec == Init /\ [][Next]_vars

\* Runs of run_analysis, one after another, on one instance.
SpecRepeated == InitRepeated /\ [][NextRepeated]_vars

====
